---- MODULE Spec2Model ----
(***************************************************************************)
(* Model of the construction cost analyzer (app/data_manager.py and        *)
(* app/routes.py).                                                         *)
(*                                                                         *)
(* State: the three master catalogs (labor.csv, material.csv,              *)
(* equipment.csv), the main document data.json (categories with their     *)
(* work items, projects with their lines), the stream of uuid4 values,     *)
(* the handler that served the last request (req) and its response (resp). *)
(* retired is a history variable: the ids of the master items that were    *)
(* deleted from each catalog.                                              *)
(* Every request handler of routes.py is one action; the data_manager      *)
(* functions it calls are operators.                                       *)
(*                                                                         *)
(* Python floats are modelled as exact rationals [n, d] in lowest terms    *)
(* with d > 0, and float('nan') as [n |-> 0, d |-> 0]; rounding of the     *)
(* binary representation is not modelled.                                  *)
(***************************************************************************)
EXTENDS Integers, Sequences, FiniteSets, TLC

VARIABLES catalog, doc, nextUuid, req, resp, retired

vars == <<catalog, doc, nextUuid, req, resp, retired>>

(***************************************************************************)
(* Bounds of the model.                                                    *)
(***************************************************************************)
MaxCatalog == 2
MaxSerial == 3
MaxUuid == 2

(***************************************************************************)
(* Python values.                                                          *)
(***************************************************************************)
\* A key that is not in a form / a dict (dict.get then yields its default).
Absent == "<absent>"

RECURSIVE GCD(_, _)
GCD(a, b) == IF b = 0 THEN a ELSE GCD(b, a % b)

Abs(x) == IF x < 0 THEN -x ELSE x

NaN == [n |-> 0, d |-> 0]

\* The float n/d.
R(n, d) ==
    IF d = 0 THEN NaN
    ELSE LET g == GCD(Abs(n), Abs(d))
             s == IF d < 0 THEN -1 ELSE 1
         IN  [n |-> (s * n) \div g, d |-> (s * d) \div g]

F(n) == R(n, 1)

IsNaN(x) == x.d = 0

Add(x, y) == IF IsNaN(x) \/ IsNaN(y) THEN NaN ELSE R(x.n * y.d + y.n * x.d, x.d * y.d)
Mul(x, y) == IF IsNaN(x) \/ IsNaN(y) THEN NaN ELSE R(x.n * y.n, x.d * y.d)
\* x / y for y # 0 (the callers guard against a zero divisor).
Div(x, y) == IF IsNaN(x) \/ IsNaN(y) THEN NaN ELSE R(x.n * y.d, x.d * y.n)
\* Comparisons with nan are False.
Gt0(x) == ~IsNaN(x) /\ x.n > 0
Le0(x) == ~IsNaN(x) /\ x.n <= 0
Ge0(x) == ~IsNaN(x) /\ x.n >= 0
\* bool(x) of a float: 0.0 is falsy, everything else (nan included) truthy.
TruthyNum(x) == ~(x = F(0))
\* bool(s) of a str or None.
TruthyStr(s) == s # Absent /\ s # ""

\* float(s) for the numeric literals the model uses; any other text raises
\* ValueError.
FloatLiterals ==
    [t \in {"0", "1", "2", "3", "5", "10", "-1", "-5", "nan",
            "0.0", "1.0", "2.0", "3.0", "5.0", "10.0", "100.0", "-1.0", "-5.0"} |->
        CASE t \in {"0", "0.0"} -> F(0)
          [] t \in {"1", "1.0"} -> F(1)
          [] t \in {"2", "2.0"} -> F(2)
          [] t \in {"3", "3.0"} -> F(3)
          [] t \in {"5", "5.0"} -> F(5)
          [] t \in {"10", "10.0"} -> F(10)
          [] t = "100.0" -> F(100)
          [] t \in {"-1", "-1.0"} -> F(-1)
          [] t \in {"-5", "-5.0"} -> F(-5)
          [] t = "nan" -> NaN]

IsFloatText(s) == s \in DOMAIN FloatLiterals
ParseFloat(s) == FloatLiterals[s]

\* str(x) of a float, as csv.writer writes it: the shortest text that float()
\* reads back as x.
FormatFloat(x) ==
    CHOOSE t \in {"0.0", "1.0", "2.0", "3.0", "5.0", "10.0", "100.0", "-1.0", "-5.0", "nan"} :
        FloatLiterals[t] = x

\* int(s) of a str: decimal digits give the integer, anything else raises
\* ValueError.
IsIntText(s) == \E i \in 0..(MaxSerial + 1) : ToString(i) = s
ParseInt(s) == CHOOSE i \in 0..(MaxSerial + 1) : ToString(i) = s

\* Dict keys: a str key never equals an int key.
PyStr(s) == [tag |-> "str", s |-> s, i |-> 0]
PyInt(i) == [tag |-> "int", s |-> "", i |-> i]

(***************************************************************************)
(* data_manager: master inventory (one CSV file per item type).            *)
(* A file is a sequence of rows [SerialNo, Type, Unit, Price], every cell  *)
(* text; Type stands for the LaborType / MaterialType / EquipmentType      *)
(* column.                                                                 *)
(***************************************************************************)
RECURSIVE MapSeq(_, _)
MapSeq(Op(_), s) == IF s = <<>> THEN <<>> ELSE <<Op(Head(s))>> \o MapSeq(Op, Tail(s))

RECURSIVE FilterSeq(_, _)
FilterSeq(Keep(_), s) ==
    IF s = <<>> THEN <<>>
    ELSE (IF Keep(Head(s)) THEN <<Head(s)>> ELSE <<>>) \o FilterSeq(Keep, Tail(s))

LoadRow(row) ==
    [id |-> row.SerialNo, name |-> row.Type, Unit |-> row.Unit, Price |-> ParseFloat(row.Price)]

\* The list _load_master_csv returns for the file `file`.
_load_master_csv(file) == MapSeq(LoadRow, file)

SaveRow(item) ==
    [SerialNo |-> item.id, Type |-> item.name, Unit |-> item.Unit, Price |-> FormatFloat(item.Price)]

\* The file _save_master_csv writes for the list `data`.
_save_master_csv(data) == MapSeq(SaveRow, data)

RECURSIVE MaxIdOf(_, _)
MaxIdOf(items, max_id) ==
    IF items = <<>> THEN max_id
    ELSE MaxIdOf(Tail(items),
                 IF IsIntText(Head(items).id) /\ ParseInt(Head(items).id) > max_id
                 THEN ParseInt(Head(items).id) ELSE max_id)

\* A faulty id: the number of items plus one.
new_id_by_count(all_items) == ToString(Len(all_items) + 1)

new_id(all_items) == ToString(MaxIdOf(all_items, 0) + 1)

\* The file after add_master_item(item_type, data), `file` being the file
\* of item_type before the call.
add_master_item(file, data) ==
    LET all_items == _load_master_csv(file)
        new_item == [id |-> new_id(all_items), name |-> data.name,
                     Unit |-> data.unit, Price |-> data.price]
    IN  _save_master_csv(Append(all_items, new_item))

\* The file after update_master_item(item_type, item_id, data): the first
\* item with that id is rewritten.
update_master_item(file, item_id, data) ==
    LET all_items == _load_master_csv(file)
        hits == {i \in 1..Len(all_items) : all_items[i].id = item_id}
        first == CHOOSE i \in hits : \A j \in hits : i <= j
    IN  _save_master_csv(
            [i \in 1..Len(all_items) |->
                IF hits # {} /\ i = first
                THEN [all_items[i] EXCEPT !.name = data.name, !.Unit = data.unit,
                                          !.Price = data.price]
                ELSE all_items[i]])

\* A faulty delete: the first item goes, whatever its id.
delete_first_item(file, item_id) ==
    LET all_items == _load_master_csv(file)
    IN  _save_master_csv(IF all_items = <<>> THEN <<>> ELSE Tail(all_items))

\* The file after delete_master_item(item_type, item_id).
delete_master_item(file, item_id) ==
    LET all_items == _load_master_csv(file)
        Keep(item) == item.id # item_id
    IN  _save_master_csv(FilterSeq(Keep, all_items))

\* get_master_item_map: the loaded items keyed by their id, a str.
get_master_item_map(file) ==
    LET all_items == _load_master_csv(file)
        last(k) == CHOOSE i \in 1..Len(all_items) :
                      /\ PyStr(all_items[i].id) = k
                      /\ \A j \in 1..Len(all_items) : PyStr(all_items[j].id) = k => j <= i
    IN  [k \in {PyStr(all_items[i].id) : i \in 1..Len(all_items)} |-> all_items[last(k)]]

(***************************************************************************)
(* Requests and responses.  req names the handler that served the last     *)
(* request, its inputs being the parameters of the handler's action (the   *)
(* request of inventory_manager is kept with its form).  A response is     *)
(* [status, flash]: status is "redirect", "render" or "exception" (an      *)
(* exception no handler catches), flash the category of the flashed        *)
(* message.                                                                *)
(***************************************************************************)
Request(handler) == [handler |-> handler]
Response(status, flash) == [status |-> status, flash |-> flash]

NoRequest == Request("none")
NoResponse == Response("none", "none")

(***************************************************************************)
(* routes.inventory_manager (POST).  The form is decoded into one dict per *)
(* item id (`entries`, in form order); the entries are handled in turn and *)
(* a ValueError ends the loop.                                             *)
(***************************************************************************)
\* data.get('price', 0) is a float text, or absent.
PriceOk(data) == data.price = Absent \/ IsFloatText(data.price)

\* {"name": data.get('name'), "unit": data.get('unit'),
\*  "price": float(data.get('price', 0))}
FieldsOf(data) ==
    [name |-> data.name, unit |-> data.unit,
     price |-> IF data.price = Absent THEN F(0) ELSE ParseFloat(data.price)]

\* A faulty check: any(update_data.values()).
AnyTruthy(d) == TruthyStr(d.name) \/ TruthyStr(d.unit) \/ TruthyNum(d.price)

\* all(update_data.values())
AllTruthy(d) == TruthyStr(d.name) /\ TruthyStr(d.unit) /\ TruthyNum(d.price)

RECURSIVE InventoryLoop(_, _)
InventoryLoop(file, entries) ==
    IF entries = <<>> THEN [file |-> file, flash |-> "success"]
    ELSE LET data == Head(entries)
             rest == Tail(entries)
         IN  CASE data.action = "delete" ->
                    InventoryLoop(delete_master_item(file, data.id), rest)
               [] data.action = "update" ->
                    IF ~PriceOk(data) THEN [file |-> file, flash |-> "error"]
                    ELSE IF AllTruthy(FieldsOf(data))
                         THEN InventoryLoop(update_master_item(file, data.id, FieldsOf(data)), rest)
                         ELSE InventoryLoop(file, rest)
               [] data.action = "create" ->
                    IF ~PriceOk(data) THEN [file |-> file, flash |-> "error"]
                    ELSE IF AllTruthy(FieldsOf(data))
                         THEN InventoryLoop(add_master_item(file, FieldsOf(data)), rest)
                         ELSE InventoryLoop(file, rest)
               [] OTHER -> InventoryLoop(file, rest)

ValidItemTypes == {"labor", "material", "equipment"}

\* The catalog stays within the bounds of the model.
CatalogInBounds(file) ==
    /\ Len(file) <= MaxCatalog
    /\ \A i \in 1..Len(file) : IsIntText(file[i].SerialNo) /\ ParseInt(file[i].SerialNo) <= MaxSerial

SerialTexts == {ToString(i) : i \in 1..MaxSerial}

\* The name, unit and price fields a create or update entry is submitted
\* with: all filled in, a negative price, and each of the ways a field can
\* be empty, zero, missing or not a number.
GoodFields == [name |-> "Steel", unit |-> "PerKg", price |-> "10"]

EntryFields ==
    {GoodFields,
     [name |-> "Steel", unit |-> "PerKg", price |-> "-5"],
     [name |-> "", unit |-> "PerKg", price |-> "10"],
     [name |-> "Steel", unit |-> "", price |-> "10"],
     [name |-> "Steel", unit |-> "PerKg", price |-> "0"],
     [name |-> "Steel", unit |-> "PerKg", price |-> ""],
     [name |-> "Steel", unit |-> "PerKg", price |-> Absent],
     [name |-> "Steel", unit |-> "PerKg", price |-> "abc"]}

Entry(id, action, f) ==
    [id |-> id, action |-> action, name |-> f.name, unit |-> f.unit, price |-> f.price]

NoFields == [name |-> Absent, unit |-> Absent, price |-> Absent]

InventoryEntries ==
    {Entry(id, "update", f) : id \in SerialTexts, f \in EntryFields}
        \cup {Entry("new", "create", f) : f \in EntryFields}
        \cup {Entry(id, "delete", NoFields) : id \in SerialTexts}

\* The forms with two entries: a create after an entry that is applied,
\* skipped or raises.
FirstOfTwo ==
    {Entry("1", "delete", NoFields),
     Entry("1", "update", [GoodFields EXCEPT !.price = "0"]),
     Entry("1", "update", [GoodFields EXCEPT !.price = "abc"]),
     Entry("new", "create", [GoodFields EXCEPT !.name = ""])}

InventoryForms ==
    {<<e>> : e \in InventoryEntries}
        \cup {<<e, Entry("new2", "create", GoodFields)>> : e \in FirstOfTwo}

SerialsOf(file) == {file[i].SerialNo : i \in 1..Len(file)}

\* A faulty inventory_manager: the lines of the stored work items that name
\* an id no longer in the catalog are dropped with it.
inventory_manager_cascading(item_type, entries) ==
    /\ req' = [handler |-> "inventory_manager", item_type |-> item_type, entries |-> entries]
    /\ IF item_type \notin ValidItemTypes
       THEN /\ resp' = Response("redirect", "error")
            /\ UNCHANGED <<catalog, retired, doc>>
       ELSE LET out == InventoryLoop(catalog[item_type], entries)
                Listed(line) == line.id \in SerialsOf(out.file)
                Prune(w) == [k \in DOMAIN w |->
                               IF k = item_type THEN FilterSeq(Listed, w[k]) ELSE w[k]]
                PruneAll(c) == [c EXCEPT !.work_items = MapSeq(Prune, @)]
            IN  /\ CatalogInBounds(out.file)
                /\ catalog' = [catalog EXCEPT ![item_type] = out.file]
                /\ resp' = Response("redirect", out.flash)
                /\ retired' = [retired EXCEPT ![item_type] =
                                  @ \cup (SerialsOf(catalog[item_type]) \ SerialsOf(out.file))]
                /\ doc' = [doc EXCEPT !.categories = MapSeq(PruneAll, @)]
    /\ UNCHANGED nextUuid

inventory_manager(item_type, entries) ==
    /\ req' = [handler |-> "inventory_manager", item_type |-> item_type, entries |-> entries]
    /\ IF item_type \notin ValidItemTypes
       THEN /\ resp' = Response("redirect", "error")
            /\ UNCHANGED <<catalog, retired>>
       ELSE LET out == InventoryLoop(catalog[item_type], entries)
            IN  /\ CatalogInBounds(out.file)
                /\ catalog' = [catalog EXCEPT ![item_type] = out.file]
                /\ resp' = Response("redirect", out.flash)
                /\ retired' = [retired EXCEPT ![item_type] =
                                  @ \cup (SerialsOf(catalog[item_type]) \ SerialsOf(out.file))]
    /\ UNCHANGED <<doc, nextUuid>>

\* The three files are handled by the same code: the forms are submitted
\* for the labor catalog, and one for "tools", which is no item type.
InventoryRequest ==
    \/ \E entries \in InventoryForms : inventory_manager("labor", entries)
    \/ inventory_manager("tools", <<Entry("new", "create", GoodFields)>>)

SeedCatalog ==
    [labor |-> <<[SerialNo |-> "1", Type |-> "Mason", Unit |-> "PerDay", Price |-> "100.0"]>>,
     material |-> <<[SerialNo |-> "1", Type |-> "Cement", Unit |-> "PerKg", Price |-> "10.0"]>>,
     equipment |-> <<>>]

(***************************************************************************)
(* data_manager: categories, work items and projects (data.json).          *)
(* The document is [categories, projects]; a work item and a project line  *)
(* are dicts, modelled as functions from their keys, so that a key can be  *)
(* missing from a record written by an earlier version.                    *)
(***************************************************************************)
EmptyDoc == [categories |-> <<>>, projects |-> <<>>]

\* str(uuid.uuid4()): a value that was never returned before.
Uuid(n) == "u" \o ToString(n)

\* d.get(k, default)
Get(d, k, default) == IF k \in DOMAIN d THEN d[k] ELSE default

\* d with d[k] = v
Put(d, k, v) == [x \in DOMAIN d \cup {k} |-> IF x = k THEN v ELSE d[x]]

\* The index of the first element of s that satisfies Hit, 0 if none does.
FirstIndex(Hit(_), s) ==
    IF \E i \in 1..Len(s) : Hit(s[i])
    THEN CHOOSE i \in 1..Len(s) : Hit(s[i]) /\ \A j \in 1..(i - 1) : ~Hit(s[j])
    ELSE 0

CategoryIndex(data, category_id) ==
    LET Hit(c) == c.id = category_id IN FirstIndex(Hit, data.categories)

ProjectIndex(data, project_id) ==
    LET Hit(p) == p.id = project_id IN FirstIndex(Hit, data.projects)

\* The document after add_new_category(category_name).
add_new_category(data, category_name, uuid) ==
    [data EXCEPT !.categories =
        Append(@, [id |-> uuid, name |-> category_name, work_items |-> <<>>])]

\* The document after add_work_item_to_category: the first category with
\* that id gets the item; without one nothing is saved.
add_work_item_to_category(data, category_id, work_item) ==
    LET c == CategoryIndex(data, category_id)
    IN  IF c = 0 THEN data
        ELSE [data EXCEPT !.categories[c].work_items = Append(@, work_item)]

RECURSIVE FlattenWorkItems(_)
FlattenWorkItems(categories) ==
    IF categories = <<>> THEN <<>>
    ELSE Head(categories).work_items \o FlattenWorkItems(Tail(categories))

\* find_work_item_by_id: [found, item], the first item with that id over
\* all categories.
find_work_item_by_id(data, work_item_id) ==
    LET all == FlattenWorkItems(data.categories)
        Hit(item) == item["id"] = work_item_id
        i == FirstIndex(Hit, all)
    IN  IF i = 0 THEN [found |-> FALSE, item |-> <<>>]
        ELSE [found |-> TRUE, item |-> all[i]]

\* The document after data_manager.update_work_item(category_id, updated_item).
data_manager_update_work_item(data, category_id, updated_item) ==
    LET c == CategoryIndex(data, category_id)
        Swap(item) == IF item["id"] = updated_item["id"] THEN updated_item ELSE item
    IN  IF c = 0 THEN data
        ELSE [data EXCEPT !.categories[c].work_items = MapSeq(Swap, @)]

\* The document after data_manager.delete_work_item(category_id, work_item_id).
data_manager_delete_work_item(data, category_id, work_item_id) ==
    LET c == CategoryIndex(data, category_id)
        Keep(item) == item["id"] # work_item_id
    IN  IF c = 0 THEN data
        ELSE [data EXCEPT !.categories[c].work_items = FilterSeq(Keep, @)]

\* The document after save_new_project(project_name).
save_new_project(data, project_name, uuid) ==
    [data EXCEPT !.projects = Append(@, [id |-> uuid, name |-> project_name, items |-> <<>>])]

\* The document after update_project(project_data).
update_project(data, project_data) ==
    LET Swap(p) == IF p.id = project_data.id THEN project_data ELSE p
    IN  [data EXCEPT !.projects = MapSeq(Swap, @)]

(***************************************************************************)
(* routes.process_work_item_form                                           *)
(***************************************************************************)
Markup15 == R(15, 100)
Markup115 == R(115, 100)

\* parse_form_data: the form's line fields "<type>-<index>-<field>" grouped
\* per line, empty values dropped, lines without an id dropped.  form.lines
\* is the sequence of the form's lines [type, id, quantity], "" an empty
\* field.
parse_form_data(form, item_type) ==
    LET Mine(l) == l.type = item_type /\ l.id # ""
        Decode(l) == [id |-> l.id, quantity |-> IF l.quantity = "" THEN Absent ELSE l.quantity]
    IN  MapSeq(Decode, FilterSeq(Mine, form.lines))

\* The basis quantity of lines 174-177.
BasisOf(form) ==
    IF form.basis_quantity = Absent THEN F(1)
    ELSE IF ~IsFloatText(form.basis_quantity) THEN F(1)
    ELSE IF Le0(ParseFloat(form.basis_quantity)) THEN F(1)
    ELSE ParseFloat(form.basis_quantity)

\* master_map[int(item_data.get('id'))]: the key is an int.
LookupMaster(master_map, id_text) ==
    IF ~IsIntText(id_text) THEN [raised |-> "ValueError"]
    ELSE IF PyInt(ParseInt(id_text)) \notin DOMAIN master_map THEN [raised |-> "KeyError"]
    ELSE [raised |-> "no", item |-> master_map[PyInt(ParseInt(id_text))]]

\* The body of the try of lines 190-201 for one line: the line dict, or
\* the exception that skips the line.
\* The line dict of lines 196-200.
PricedLine(item_data, master_item, quantity, unit_price) ==
    [raised |-> "no",
     line |-> [id |-> item_data.id, name |-> master_item["Type"],
               quantity |-> quantity, unit_price |-> unit_price,
               subtotal |-> Mul(quantity, unit_price), unit |-> master_item.Unit]]

\* Lines 192-200, once master_map[...] has given `hit`.
ProcessHit(item_data, hit) ==
    IF hit.raised # "no" THEN [raised |-> hit.raised]
    ELSE IF item_data.quantity # Absent /\ ~IsFloatText(item_data.quantity)
    THEN [raised |-> "ValueError"]
    ELSE IF "Type" \notin DOMAIN hit.item THEN [raised |-> "KeyError"]
    ELSE PricedLine(item_data, hit.item,
                    IF item_data.quantity = Absent THEN F(0)
                    ELSE ParseFloat(item_data.quantity),
                    hit.item.Price)

ProcessLine(master_map, item_data) ==
    ProcessHit(item_data, LookupMaster(master_map, item_data.id))

\* except (ValueError, TypeError, KeyError): continue
KeptLine(r) == IF r.raised = "no" THEN <<r.line>> ELSE <<>>

\* The lines of one item type (lines 189-201).
RECURSIVE ProcessGroup(_, _)
ProcessGroup(master_map, items) ==
    IF items = <<>> THEN <<>>
    ELSE KeptLine(ProcessLine(master_map, Head(items)))
             \o ProcessGroup(master_map, Tail(items))

RECURSIVE SumSubtotals(_)
SumSubtotals(lines) ==
    IF lines = <<>> THEN F(0) ELSE Add(SumSubtotals(Tail(lines)), Head(lines).subtotal)

\* A faulty sum_total: the total plus a flat 1.15.
sum_total_flat(total_cost) == Add(total_cost, Markup115)

overhead_of(total_cost) == Mul(total_cost, Markup15)
sum_total_of(total_cost) == Mul(total_cost, Markup115)

\* A faulty name check: a non-numeric basis_quantity fails it too.
NameOrBasisMissing(form) ==
    ~TruthyStr(form.name) \/ ~IsFloatText(form.basis_quantity)

\* if not work_item_name (lines 172-173)
NameMissing(form) == ~TruthyStr(form.name)

\* [produced, item]: produced is FALSE where the function returns None.
\* The returned dict (lines 180-185 and 202-207): [produced, item].
processed_item(form, item_id, basis_quantity, lines, totals, total_cost, sum_total) ==
    [produced |-> TRUE,
     item |-> [id |-> item_id, name |-> form.name,
               unit_of_measure |-> IF form.unit_of_measure = Absent THEN "Per Item"
                                   ELSE form.unit_of_measure,
               basis_quantity |-> basis_quantity,
               labor |-> lines["labor"], material |-> lines["material"],
               equipment |-> lines["equipment"],
               labor_total |-> totals["labor"], material_total |-> totals["material"],
               equipment_total |-> totals["equipment"],
               total_cost_per_unit |-> total_cost,
               contractor_overhead_15_percent |-> overhead_of(total_cost),
               sum_total |-> sum_total,
               price_per_unit |-> Div(sum_total, basis_quantity)]]

\* Lines 204-207, given the lines and the totals of the three item types.
WithTotalCost(form, item_id, basis_quantity, lines, totals, total_cost) ==
    processed_item(form, item_id, basis_quantity, lines, totals, total_cost,
                   sum_total_of(total_cost))

\* total_cost += group_subtotal
WithTotals(form, item_id, basis_quantity, lines, totals) ==
    WithTotalCost(form, item_id, basis_quantity, lines, totals,
                  Add(Add(totals["labor"], totals["material"]), totals["equipment"]))

\* processed_item[f"{item_type}_total"] = group_subtotal
WithLines(form, item_id, basis_quantity, lines) ==
    WithTotals(form, item_id, basis_quantity, lines,
               [t \in ValidItemTypes |-> SumSubtotals(lines[t])])

process_work_item_form(files, form, item_id) ==
    IF NameMissing(form) THEN [produced |-> FALSE, item |-> <<>>]
    ELSE WithLines(form, item_id, BasisOf(form),
                   [t \in ValidItemTypes |->
                       ProcessGroup(get_master_item_map(files[t]), parse_form_data(form, t))])

(***************************************************************************)
(* routes: the handlers of the categories, work items and projects.        *)
(***************************************************************************)
\* categories_list, POST
categories_list(category_name) ==
    /\ req' = Request("categories_list")
    /\ IF TruthyStr(category_name)
       THEN /\ nextUuid <= MaxUuid
            /\ doc' = add_new_category(doc, category_name, Uuid(nextUuid))
            /\ nextUuid' = nextUuid + 1
            /\ resp' = Response("redirect", "success")
       ELSE /\ resp' = Response("redirect", "error")
            /\ UNCHANGED <<doc, nextUuid>>
    /\ UNCHANGED <<catalog, retired>>

\* The data integrity layer of category_detail (lines 130-140) for one item.
MigrateItem(item) ==
    LET with_basis == IF "basis_quantity" \notin DOMAIN item
                      THEN Put(item, "basis_quantity", F(1)) ELSE item
        total == Get(with_basis, "sum_total", F(0))
        basis == Get(with_basis, "basis_quantity", F(1))
    IN  IF "price_per_unit" \notin DOMAIN with_basis
        THEN Put(with_basis, "price_per_unit", IF Gt0(basis) THEN Div(total, basis) ELSE total)
        ELSE with_basis

\* The work items category_detail hands to the template for the category at
\* index c of the document.
CategoryView(c) == MapSeq(MigrateItem, doc.categories[c].work_items)

\* category_detail, GET
category_detail(category_id) ==
    /\ req' = Request("category_detail")
    /\ LET c == CategoryIndex(doc, category_id)
       IN  IF c = 0
           THEN resp' = Response("redirect", "error")
           ELSE resp' = Response("render", "none")
    /\ UNCHANGED <<catalog, doc, nextUuid, retired>>

\* save_work_item, POST
\* save_work_item after process_work_item_form has returned final_item.
SaveFinalItem(category_id, final_item) ==
    IF ~final_item.produced
    THEN /\ resp' = Response("redirect", "error")
         /\ UNCHANGED <<doc, nextUuid>>
    ELSE /\ nextUuid <= MaxUuid
         /\ doc' = add_work_item_to_category(doc, category_id, final_item.item)
         /\ nextUuid' = nextUuid + 1
         /\ resp' = Response("redirect", "success")

save_work_item(category_id, form) ==
    /\ req' = Request("save_work_item")
    /\ SaveFinalItem(category_id, process_work_item_form(catalog, form, Uuid(nextUuid)))
    /\ UNCHANGED <<catalog, retired>>

\* update_work_item, POST
\* update_work_item after process_work_item_form has returned updated_item.
SaveUpdatedItem(category_id, updated_item) ==
    IF ~updated_item.produced
    THEN /\ resp' = Response("redirect", "error")
         /\ UNCHANGED doc
    ELSE /\ doc' = data_manager_update_work_item(doc, category_id, updated_item.item)
         /\ resp' = Response("redirect", "success")

update_work_item(category_id, work_item_id, form) ==
    /\ req' = Request("update_work_item")
    /\ SaveUpdatedItem(category_id, process_work_item_form(catalog, form, work_item_id))
    /\ UNCHANGED <<catalog, nextUuid, retired>>

\* delete_work_item, POST
delete_work_item(category_id, work_item_id) ==
    /\ req' = Request("delete_work_item")
    /\ doc' = data_manager_delete_work_item(doc, category_id, work_item_id)
    /\ resp' = Response("redirect", "success")
    /\ UNCHANGED <<catalog, nextUuid, retired>>

\* projects_list, POST
projects_list(project_name) ==
    /\ req' = Request("projects_list")
    /\ IF TruthyStr(project_name)
       THEN /\ nextUuid <= MaxUuid
            /\ doc' = save_new_project(doc, project_name, Uuid(nextUuid))
            /\ nextUuid' = nextUuid + 1
            /\ resp' = Response("redirect", "success")
       ELSE /\ resp' = Response("render", "error")
            /\ UNCHANGED <<doc, nextUuid>>
    /\ UNCHANGED <<catalog, retired>>

\* A faulty quantity edit: the line's unit_price is read again from its work
\* item.
EditQuantityAndPrice(quantities, line) ==
    IF line["instance_id"] \notin DOMAIN quantities THEN line
    ELSE LET work_item == find_work_item_by_id(doc, line["work_item_id"])
             edited == Put(line, "quantity",
                           IF IsFloatText(quantities[line["instance_id"]])
                           THEN ParseFloat(quantities[line["instance_id"]]) ELSE F(0))
         IN  IF work_item.found
             THEN Put(edited, "unit_price", Get(work_item.item, "sum_total", F(0)))
             ELSE edited

\* The quantity edit of project_detail (lines 275-281) for one line:
\* quantities is the form's quantity-<instance_id> fields.
EditQuantity(quantities, line) ==
    IF line["instance_id"] \notin DOMAIN quantities THEN line
    ELSE Put(line, "quantity",
             IF IsFloatText(quantities[line["instance_id"]])
             THEN ParseFloat(quantities[line["instance_id"]]) ELSE F(0))

\* project_detail, POST
project_detail(project_id, quantities) ==
    /\ req' = Request("project_detail")
    /\ LET p == ProjectIndex(doc, project_id)
           Edit(line) == EditQuantity(quantities, line)
       IN  IF p = 0
           THEN /\ resp' = Response("redirect", "error")
                /\ UNCHANGED doc
           ELSE /\ doc' = update_project(doc, [doc.projects[p] EXCEPT !.items = MapSeq(Edit, @)])
                /\ resp' = Response("redirect", "success")
    /\ UNCHANGED <<catalog, nextUuid, retired>>

\* add_item_to_project, POST
add_item_to_project(project_id, work_item_id, quantity) ==
    /\ req' = Request("add_item_to_project")
    /\ LET p == ProjectIndex(doc, project_id)
           work_item == find_work_item_by_id(doc, work_item_id)
           text == IF quantity = Absent THEN "1.0" ELSE quantity
       IN  IF p = 0 \/ ~work_item.found
           THEN /\ resp' = Response("redirect", "error")
                /\ UNCHANGED <<doc, nextUuid>>
           ELSE /\ nextUuid <= MaxUuid
                /\ nextUuid' = nextUuid + 1
                /\ IF ~IsFloatText(text)
                   THEN \* float(quantity) raises ValueError and nothing catches it
                        /\ resp' = Response("exception", "none")
                        /\ UNCHANGED doc
                   ELSE LET new_item ==
                                [instance_id |-> Uuid(nextUuid), work_item_id |-> work_item_id,
                                 name |-> Get(work_item.item, "name", Absent),
                                 unit_of_measure |-> Get(work_item.item, "unit_of_measure", Absent),
                                 unit_price |-> Get(work_item.item, "sum_total", F(0)),
                                 quantity |-> ParseFloat(text)]
                        IN  /\ doc' = update_project(doc,
                                        [doc.projects[p] EXCEPT !.items = Append(@, new_item)])
                            /\ resp' = Response("redirect", "success")
    /\ UNCHANGED <<catalog, retired>>

(***************************************************************************)
(* Requests.                                                               *)
(***************************************************************************)
ExampleLines ==
    <<[type |-> "labor", id |-> "1", quantity |-> "2"],
      [type |-> "material", id |-> "1", quantity |-> "5"]>>

MalformedLines ==
    <<[type |-> "labor", id |-> "x", quantity |-> "2"],
      [type |-> "labor", id |-> "1", quantity |-> "abc"],
      [type |-> "material", id |-> "3", quantity |-> "1"],
      [type |-> "equipment", id |-> "", quantity |-> "1"],
      [type |-> "material", id |-> "1", quantity |-> ""]>>

WorkItemForm(name, basis_quantity, lines) ==
    [name |-> name, unit_of_measure |-> "Cubic Meter", basis_quantity |-> basis_quantity,
     lines |-> lines]

WorkItemForms ==
    {WorkItemForm("Brickwork", Absent, <<>>),
     WorkItemForm("Brickwork", "2", ExampleLines),
     WorkItemForm("Brickwork", "abc", MalformedLines),
     WorkItemForm("Brickwork", "0", <<>>),
     WorkItemForm("Brickwork", "nan", <<>>),
     WorkItemForm("", "2", ExampleLines)}

CategoryIds == {doc.categories[i].id : i \in 1..Len(doc.categories)} \cup {"nowhere"}
ProjectIds == {doc.projects[i].id : i \in 1..Len(doc.projects)} \cup {"nowhere"}
WorkItemIds ==
    LET all == FlattenWorkItems(doc.categories)
    IN  {all[i]["id"] : i \in 1..Len(all)} \cup {"nothing"}

InstanceIds(project_id) ==
    LET p == ProjectIndex(doc, project_id)
    IN  IF p = 0 THEN {}
        ELSE {doc.projects[p].items[i]["instance_id"] : i \in 1..Len(doc.projects[p].items)}

QuantityForms(project_id) ==
    UNION {[ids -> {"-1", "abc"}] : ids \in SUBSET InstanceIds(project_id)}

NewCategory == \E category_name \in {"", "Masonry"} : categories_list(category_name)
ViewCategory == \E category_id \in CategoryIds : category_detail(category_id)
SaveWorkItem ==
    \E category_id \in CategoryIds, form \in WorkItemForms : save_work_item(category_id, form)
UpdateWorkItem ==
    \E category_id \in CategoryIds, work_item_id \in WorkItemIds, form \in WorkItemForms :
        update_work_item(category_id, work_item_id, form)
DeleteWorkItem ==
    \E category_id \in CategoryIds, work_item_id \in WorkItemIds :
        delete_work_item(category_id, work_item_id)
NewProject == \E project_name \in {"", "House"} : projects_list(project_name)
EditProject ==
    \E project_id \in ProjectIds : \E quantities \in QuantityForms(project_id) :
        project_detail(project_id, quantities)
AddItemToProject ==
    \E project_id \in ProjectIds, work_item_id \in WorkItemIds,
       quantity \in {Absent, "abc"} :
        add_item_to_project(project_id, work_item_id, quantity)

(***************************************************************************)
(* Specifications.                                                         *)
(***************************************************************************)
\* Records of data.json written by an earlier version of the program: a
\* work item without basis_quantity and price_per_unit, and one whose
\* basis_quantity is 0.
LegacyItem ==
    [id |-> "w0", name |-> "Brick wall", unit_of_measure |-> "Cubic Meter",
     labor |-> <<[id |-> "1", name |-> "Mason", quantity |-> F(2), unit_price |-> F(100),
                  subtotal |-> F(200), unit |-> "PerDay"]>>,
     material |-> <<[id |-> "1", name |-> "Cement", quantity |-> F(5), unit_price |-> F(10),
                     subtotal |-> F(50), unit |-> "PerKg"]>>,
     equipment |-> <<>>,
     labor_total |-> F(200), material_total |-> F(50), equipment_total |-> F(0),
     total_cost_per_unit |-> F(250), contractor_overhead_15_percent |-> R(75, 2),
     sum_total |-> R(575, 2)]

ZeroBasisItem ==
    [id |-> "w1", name |-> "Plaster", unit_of_measure |-> "Square Meter",
     basis_quantity |-> F(0),
     labor |-> <<[id |-> "1", name |-> "Mason", quantity |-> F(1), unit_price |-> F(100),
                  subtotal |-> F(100), unit |-> "PerDay"]>>,
     material |-> <<>>, equipment |-> <<>>,
     labor_total |-> F(100), material_total |-> F(0), equipment_total |-> F(0),
     total_cost_per_unit |-> F(100), contractor_overhead_15_percent |-> F(15),
     sum_total |-> F(115)]

LegacyDoc(work_item) ==
    [categories |-> <<[id |-> "c0", name |-> "Masonry", work_items |-> <<work_item>>]>>,
     projects |-> <<[id |-> "p0", name |-> "House", items |-> <<>>]>>]

NoneRetired == [t \in ValidItemTypes |-> {}]

\* The program started on an empty document.
Init ==
    /\ catalog = SeedCatalog
    /\ doc = EmptyDoc
    /\ nextUuid = 1
    /\ req = NoRequest
    /\ resp = NoResponse
    /\ retired = NoneRetired

\* The program started on a document of an earlier version.
InitLegacy ==
    /\ catalog = SeedCatalog
    /\ doc \in {LegacyDoc(LegacyItem), LegacyDoc(ZeroBasisItem)}
    /\ nextUuid = 1
    /\ req = NoRequest
    /\ resp = NoResponse
    /\ retired = NoneRetired

Next ==
    \/ NewCategory
    \/ ViewCategory
    \/ SaveWorkItem
    \/ UpdateWorkItem
    \/ DeleteWorkItem
    \/ NewProject
    \/ EditProject
    \/ AddItemToProject

Spec == Init /\ [][Next]_vars

\* The work items and the project of a stored document in use.
NextLegacy ==
    \/ ViewCategory
    \/ UpdateWorkItem
    \/ DeleteWorkItem
    \/ EditProject
    \/ AddItemToProject

SpecLegacy == InitLegacy /\ [][NextLegacy]_vars

\* The master inventory under edit, beside a stored document.
InitInv ==
    /\ catalog = SeedCatalog
    /\ doc = LegacyDoc(LegacyItem)
    /\ nextUuid = 1
    /\ req = NoRequest
    /\ resp = NoResponse
    /\ retired = NoneRetired

NextInv == InventoryRequest

SpecInv == InitInv /\ [][NextInv]_vars

(***************************************************************************)
(* process_work_item_form as a function: req is the call (the form, the    *)
(* work_item_id argument), the catalogs are any of CatalogChoices, and     *)
(* resp.item is what the call returned.                                    *)
(***************************************************************************)
CatalogChoices ==
    {SeedCatalog,
     [labor |-> <<>>, material |-> <<>>, equipment |-> <<>>],
     [labor |-> <<[SerialNo |-> "2", Type |-> "Helper", Unit |-> "PerDay", Price |-> "5.0"],
                  [SerialNo |-> "1", Type |-> "Mason", Unit |-> "PerDay", Price |-> "100.0"]>>,
      material |-> <<[SerialNo |-> "3", Type |-> "Sand", Unit |-> "PerKg", Price |-> "-5.0"]>>,
      equipment |-> <<[SerialNo |-> "1", Type |-> "Mixer", Unit |-> "PerDay", Price |-> "10.0"]>>]}

FormLines ==
    {<<>>, ExampleLines, MalformedLines,
     <<[type |-> "equipment", id |-> "1", quantity |-> "3"],
       [type |-> "labor", id |-> "2", quantity |-> "1"],
       [type |-> "labor", id |-> "1", quantity |-> "2"]>>}

FormCalls ==
    [handler : {"process_work_item_form"},
     work_item_id : {Absent, "w0"},
     form : [name : {Absent, "", "Brickwork"},
             unit_of_measure : {Absent, "Cubic Meter"},
             basis_quantity : {Absent, "", "abc", "0", "-1", "2", "nan"},
             lines : FormLines]]

InitForm ==
    /\ catalog \in CatalogChoices
    /\ doc = EmptyDoc
    /\ nextUuid = 1
    /\ req \in FormCalls
    /\ resp = [status |-> "none", flash |-> "none", produced |-> FALSE, item |-> <<>>]
    /\ retired = NoneRetired

\* The call returns: work_item_id or str(uuid.uuid4()) is the item's id.
\* The caller's side of the return: the value, and the uuid drawn for it.
ReturnForm(fresh, out) ==
    /\ resp' = [status |-> "returned", flash |-> "none",
                produced |-> out.produced, item |-> out.item]
    /\ nextUuid' = IF fresh /\ out.produced THEN nextUuid + 1 ELSE nextUuid

CallForm ==
    /\ req.handler = "process_work_item_form"
    /\ resp.status = "none"
    /\ ReturnForm(req.work_item_id = Absent,
                  process_work_item_form(catalog, req.form,
                      IF req.work_item_id = Absent THEN Uuid(nextUuid) ELSE req.work_item_id))
    /\ UNCHANGED <<catalog, doc, req, retired>>

SpecForm == InitForm /\ [][CallForm]_vars

(***************************************************************************)
(* Properties of process_work_item_form (SpecForm).                        *)
(***************************************************************************)
Returned == resp.status = "returned" /\ resp.produced

\* The rows of a catalog file a form line of the same type names.
RowsNamed(l) ==
    {r \in 1..Len(catalog[l.type]) : catalog[l.type][r].SerialNo = l.id}

\* A form line the catalog can price: its id names a row, its quantity is a
\* number.
Priceable(l) ==
    /\ l.type \in ValidItemTypes
    /\ RowsNamed(l) # {}
    /\ IsFloatText(l.quantity)

\* C1: with a non-empty name, every selected line whose id names a master
\* item of its category's catalog and whose quantity is numeric appears in
\* the returned work item with subtotal = quantity x the master item's
\* price, each category total is the sum of its lines' subtotals, and the
\* example (labor 2 x 100, material 5 x 10) gives 200 / 50 / 0 / 250.
C1_SelectedLinesPriced ==
    Returned =>
        /\ \A i \in 1..Len(req.form.lines) :
              LET l == req.form.lines[i]
              IN  Priceable(l) =>
                    \E k \in 1..Len(resp.item[l.type]) :
                        /\ resp.item[l.type][k].id = l.id
                        /\ \E r \in RowsNamed(l) :
                              resp.item[l.type][k].subtotal =
                                  Mul(ParseFloat(l.quantity),
                                      ParseFloat(catalog[l.type][r].Price))
        /\ resp.item.labor_total = SumSubtotals(resp.item.labor)
        /\ resp.item.material_total = SumSubtotals(resp.item.material)
        /\ resp.item.equipment_total = SumSubtotals(resp.item.equipment)
        /\ (catalog = SeedCatalog /\ req.form.lines = ExampleLines) =>
              /\ resp.item.labor_total = F(200)
              /\ resp.item.material_total = F(50)
              /\ resp.item.equipment_total = F(0)
              /\ resp.item.total_cost_per_unit = F(250)

\* C2: every work item process_work_item_form returns has
\* total_cost_per_unit = labor_total + material_total + equipment_total,
\* contractor_overhead_15_percent = total_cost_per_unit x 0.15 and
\* sum_total = total_cost_per_unit x 1.15 = total_cost_per_unit + overhead.
C2_TotalsAndMarkup ==
    Returned =>
        LET w == resp.item
        IN  /\ w.total_cost_per_unit =
                  Add(Add(w.labor_total, w.material_total), w.equipment_total)
            /\ w.contractor_overhead_15_percent = Mul(w.total_cost_per_unit, R(15, 100))
            /\ w.sum_total = Mul(w.total_cost_per_unit, R(115, 100))
            /\ w.sum_total = Add(w.total_cost_per_unit, w.contractor_overhead_15_percent)

\* A work item returned for the form of the example.
C2_Witness ==
    /\ Returned
    /\ req.form.lines = ExampleLines
    /\ catalog = SeedCatalog

(***************************************************************************)
(* Properties of the stored work items (Spec).                             *)
(***************************************************************************)
StoredWorkItems ==
    LET all == FlattenWorkItems(doc.categories)
    IN  {all[i] : i \in 1..Len(all)}

\* C3: from an empty document, after any save_work_item, update_work_item
\* and delete_work_item requests every stored work item has
\* basis_quantity > 0 and price_per_unit = sum_total / basis_quantity (a
\* missing, non-numeric or non-positive submitted basis is stored as 1.0).
C3_StoredBasisPositive ==
    \A w \in StoredWorkItems :
        /\ Gt0(w.basis_quantity)
        /\ w.price_per_unit = Div(w.sum_total, w.basis_quantity)

\* C4: process_work_item_form produces no record if and only if the
\* submitted name is empty, whatever the basis_quantity, line ids and line
\* quantities are; and when it produces none, save_work_item and
\* update_work_item leave the document unchanged.
C4_NoRecordIffNameEmpty ==
    [][\A form \in WorkItemForms : \A category_id \in CategoryIds :
          (\/ save_work_item(category_id, form)
           \/ \E work_item_id \in WorkItemIds :
                 update_work_item(category_id, work_item_id, form))
          => /\ (resp'.flash = "error") <=> (form.name = "")
             /\ (form.name = "") => (doc' = doc)]_vars

\* update_work_item has refused a form while a work item is stored.
C4_Witness ==
    /\ req.handler = "update_work_item"
    /\ resp.flash = "error"
    /\ StoredWorkItems # {}

(***************************************************************************)
(* Properties of the master inventory (SpecInv).                           *)
(***************************************************************************)
\* C5: update_master_item, delete_master_item and add_master_item leave
\* every stored work item unchanged (its lines' name, quantity, unit_price
\* and subtotal, and its totals), also when the edited or deleted master
\* item is the one a line references.
C5_WorkItemsUntouched ==
    [][req'.handler = "inventory_manager" =>
          FlattenWorkItems(doc'.categories) = FlattenWorkItems(doc.categories)]_vars

\* The labor item "1" the stored work item's line was priced from has been
\* edited or deleted.
C5_Witness ==
    /\ req.handler = "inventory_manager"
    /\ \E w \in StoredWorkItems : \E i \in 1..Len(w.labor) :
          /\ w.labor[i].id = "1"
          /\ w.labor[i].unit_price = F(100)
          /\ \A r \in 1..Len(catalog.labor) :
                catalog.labor[r].SerialNo = "1" => catalog.labor[r].Price # "100.0"

\* A form of one entry, a create that passes the checks, was served for the
\* labor catalog and appended a row.
CreateServed ==
    /\ req'.handler = "inventory_manager"
    /\ req'.item_type = "labor"
    /\ Len(req'.entries) = 1
    /\ req'.entries[1].action = "create"
    /\ Len(catalog'.labor) = Len(catalog.labor) + 1

AssignedId == catalog'.labor[Len(catalog'.labor)].SerialNo

\* The greatest of the catalog's ids, 0 for an empty catalog.
GreatestId ==
    LET ids == {ParseInt(id) : id \in SerialsOf(catalog.labor)} \cup {0}
    IN  CHOOSE m \in ids : \A n \in ids : n <= m

\* C7 as stated: add_master_item assigns max(existing numeric ids) + 1 and
\* never an id that was assigned to an item deleted since.
C7_NeverReused ==
    [][CreateServed =>
          /\ AssignedId = ToString(GreatestId + 1)
          /\ AssignedId \notin retired.labor]_vars

\* C7: add_master_item assigns max(existing numeric ids, 0) + 1, an id no
\* item of the catalog holds at that moment; the id of a deleted item is
\* assigned again only if no remaining item has a greater or equal id.
C7_MaxPlusOne ==
    [][CreateServed =>
          /\ AssignedId = ToString(GreatestId + 1)
          /\ AssignedId \notin SerialsOf(catalog.labor)
          /\ AssignedId \in retired.labor =>
                \A id \in SerialsOf(catalog.labor) : ParseInt(id) < ParseInt(AssignedId)]_vars

\* An item holds an id whose earlier holder was deleted.
C7_Witness ==
    /\ req.handler = "inventory_manager"
    /\ req.entries[Len(req.entries)].action = "create"
    /\ SerialsOf(catalog.labor) \cap retired.labor # {}

\* A create or update entry with an empty or zero name, unit or price.
EmptyOrZero(e) ==
    /\ e.action \in {"create", "update"}
    /\ \/ e.name \in {"", Absent}
       \/ e.unit \in {"", Absent}
       \/ e.price \in {"", "0", Absent}

\* C8: a create or update entry in which name, unit or price is empty or
\* zero is rejected: it adds no item and changes none, and the rest of the
\* catalog is as before (the form's other entries add at most one item
\* each, after the rows that were there).
C8_EmptyOrZeroRejected ==
    [][(/\ req'.handler = "inventory_manager"
        /\ req'.item_type = "labor"
        /\ \E k \in 1..Len(req'.entries) : EmptyOrZero(req'.entries[k]))
       => /\ Len(catalog'.labor) >= Len(catalog.labor)
          /\ SubSeq(catalog'.labor, 1, Len(catalog.labor)) = catalog.labor
          /\ Len(catalog'.labor) <= Len(catalog.labor) + Len(req'.entries) - 1
          /\ catalog'.material = catalog.material
          /\ catalog'.equipment = catalog.equipment]_vars

\* A form whose first entry was rejected and whose second entry was applied
\* has been served.
C8_Witness ==
    /\ req.handler = "inventory_manager"
    /\ Len(req.entries) = 2
    /\ EmptyOrZero(req.entries[1])
    /\ resp.flash = "success"
    /\ Len(catalog.labor) = 2

(***************************************************************************)
(* Properties of a stored document in use (SpecLegacy).                    *)
(***************************************************************************)
ProjectLines ==
    UNION {{doc.projects[p].items[i] : i \in 1..Len(doc.projects[p].items)} :
              p \in 1..Len(doc.projects)}

\* C6: a project line created by add_item_to_project has unit_price equal
\* to the referenced work item's sum_total at the moment of insertion, and
\* its unit_price, work_item_id and name are unchanged by every later
\* operation (update or delete of the work item, quantity edit, further
\* lines).
C6_UnitPriceSnapshot ==
    [][\A p \in 1..Len(doc.projects) :
          LET old == doc.projects[p].items
              new == doc'.projects[p].items
          IN  /\ Len(new) >= Len(old)
              /\ \A i \in 1..Len(old) :
                    /\ new[i]["instance_id"] = old[i]["instance_id"]
                    /\ new[i]["unit_price"] = old[i]["unit_price"]
                    /\ new[i]["work_item_id"] = old[i]["work_item_id"]
                    /\ new[i]["name"] = old[i]["name"]
              /\ \A i \in (Len(old) + 1)..Len(new) :
                    \E w \in StoredWorkItems :
                        /\ w["id"] = new[i]["work_item_id"]
                        /\ new[i]["unit_price"] = w["sum_total"]]_vars

\* A line whose quantity was edited keeps the price of its insertion, while
\* its work item now has another sum_total.
C6_Witness ==
    /\ req.handler = "project_detail"
    /\ \E line \in ProjectLines :
          /\ line["quantity"] = F(-1)
          /\ line["unit_price"] = R(575, 2)
          /\ \E w \in StoredWorkItems :
                w["id"] = line["work_item_id"] /\ w["sum_total"] # line["unit_price"]

\* C9: reading a category through category_detail yields every work item
\* stored with basis_quantity absent or <= 0 with basis_quantity 1.0, and
\* every work item stored without price_per_unit with
\* price_per_unit = sum_total / basis_quantity.
C9_ReadHealsBasis ==
    (req.handler = "category_detail" /\ resp.status = "render") =>
        \A c \in 1..Len(doc.categories) :
            \A i \in 1..Len(doc.categories[c].work_items) :
                LET stored == doc.categories[c].work_items[i]
                    read == CategoryView(c)[i]
                IN  /\ ("basis_quantity" \notin DOMAIN stored
                            \/ Le0(stored["basis_quantity"]))
                        => read["basis_quantity"] = F(1)
                    /\ "price_per_unit" \notin DOMAIN stored
                        => read["price_per_unit"] =
                              Div(stored["sum_total"], read["basis_quantity"])

\* C10: no request fails on non-numeric numeric input (the default is
\* applied and the operation completes): no handler ends in an exception.
C10_NoRequestFails == resp.status # "exception"

(***************************************************************************)
(* Properties of requests that name something that does not exist (Spec).  *)
(***************************************************************************)
\* A request was served that names a category or a work item the document
\* does not hold (the submitted name being filled in), or a project or a
\* work item it does not hold.
UnknownIdServed ==
    \/ \E form \in WorkItemForms :
          /\ form.name # ""
          /\ \/ save_work_item("nowhere", form)
             \/ \E work_item_id \in WorkItemIds : update_work_item("nowhere", work_item_id, form)
             \/ \E category_id \in CategoryIds : update_work_item(category_id, "nothing", form)
    \/ \E work_item_id \in WorkItemIds : delete_work_item("nowhere", work_item_id)
    \/ \E category_id \in CategoryIds : delete_work_item(category_id, "nothing")
    \/ \E quantities \in QuantityForms("nowhere") : project_detail("nowhere", quantities)
    \/ \E work_item_id \in WorkItemIds, quantity \in {Absent, "abc"} :
          add_item_to_project("nowhere", work_item_id, quantity)
    \/ \E project_id \in ProjectIds, quantity \in {Absent, "abc"} :
          add_item_to_project(project_id, "nothing", quantity)

\* C11: a request that references a category, work item or project that
\* does not exist ends in an error outcome, not a success outcome, and
\* leaves the stored document unchanged.
C11_UnknownIdIsNotFound ==
    [][UnknownIdServed => (resp'.flash = "error" /\ doc' = doc)]_vars

(***************************************************************************)
(* Two requests on data.json interleaved at its loads and saves            *)
(* (SpecRace).  req.workers is the two calls in service: the data_manager  *)
(* function each runs (`op`), where it stands (`pc`: "start", "loaded",    *)
(* "done"), the document it loaded (`data`), and `stale`: the file was     *)
(* saved by the other call between this call's load and its save.  resp is *)
(* the outcome of each call.                                               *)
(***************************************************************************)
Workers == {1, 2}
Other(w) == 3 - w

RaceOps == {"add_new_category", "save_new_project", "add_work_item_to_category"}

\* What each call is asked to add.
CategoryNameOf(w) == IF w = 1 THEN "Masonry" ELSE "Plastering"
ProjectNameOf(w) == IF w = 1 THEN "House" ELSE "Garage"
WorkItemOf(w) == IF w = 1 THEN LegacyItem ELSE ZeroBasisItem

\* A faulty save: the file is left as it was.
SaveNothing(file, data) == file

\* json.load(f) of the file
_load_json_data(file) == file

\* json.dump(data, f): the file is replaced by data.
_save_json_data(file, data) == data

RaceDoc ==
    [categories |-> <<[id |-> "c0", name |-> "Concrete", work_items |-> <<>>]>>,
     projects |-> <<>>]

InitRace ==
    /\ catalog = SeedCatalog
    /\ doc = RaceDoc
    /\ nextUuid = 1
    /\ req \in [handler : {"concurrent"},
                workers : [Workers -> [op : RaceOps, pc : {"start"}, data : {EmptyDoc},
                                       stale : {FALSE}]]]
    /\ resp = [w \in Workers |-> NoResponse]
    /\ retired = NoneRetired

\* data = _load_json_data()
Load(w) ==
    /\ req.workers[w].pc = "start"
    /\ req' = [req EXCEPT !.workers[w].pc = "loaded",
                          !.workers[w].data = _load_json_data(doc)]
    /\ UNCHANGED <<catalog, doc, nextUuid, resp, retired>>

\* The rest of the function: the change to data and _save_json_data(data).
Save(w) ==
    /\ req.workers[w].pc = "loaded"
    /\ nextUuid <= MaxUuid
    /\ LET me == req.workers[w]
           data == CASE me.op = "add_new_category" ->
                           add_new_category(me.data, CategoryNameOf(w), Uuid(nextUuid))
                     [] me.op = "save_new_project" ->
                           save_new_project(me.data, ProjectNameOf(w), Uuid(nextUuid))
                     [] me.op = "add_work_item_to_category" ->
                           add_work_item_to_category(me.data, "c0", WorkItemOf(w))
       IN  /\ doc' = _save_json_data(doc, data)
           /\ nextUuid' = IF me.op = "add_work_item_to_category" THEN nextUuid
                          ELSE nextUuid + 1
    /\ req' = [req EXCEPT !.workers[w].pc = "done",
                          !.workers[Other(w)].stale =
                              @ \/ req.workers[Other(w)].pc = "loaded"]
    /\ resp' = [resp EXCEPT ![w] = Response("redirect", "success")]
    /\ UNCHANGED <<catalog, retired>>

NextRace == \E w \in Workers : Load(w) \/ Save(w)

SpecRace == InitRace /\ [][NextRace]_vars

\* The document holds what call w was asked to add.
HasChangeOf(w) ==
    CASE req.workers[w].op = "add_new_category" ->
            \E c \in 1..Len(doc.categories) : doc.categories[c].name = CategoryNameOf(w)
      [] req.workers[w].op = "save_new_project" ->
            \E p \in 1..Len(doc.projects) : doc.projects[p].name = ProjectNameOf(w)
      [] req.workers[w].op = "add_work_item_to_category" ->
            \E i \in 1..Len(doc.categories[1].work_items) :
                doc.categories[1].work_items[i] = WorkItemOf(w)

BothDone == \A w \in Workers : req.workers[w].pc = "done" /\ resp[w].flash = "success"

\* C12: with two requests interleaved at the loads and saves of data.json,
\* both can complete without error while the document holds the change of
\* only one of them (the last to save); run one after the other, the
\* document holds both changes.  Once both are done, a change is missing
\* exactly when the call that saved last had loaded before the other saved.
C12_LastWriteWins ==
    BothDone =>
        /\ \E w \in Workers : HasChangeOf(w)
        /\ (\A w \in Workers : HasChangeOf(w)) <=> (\A w \in Workers : ~req.workers[w].stale)
        /\ \A w \in Workers : req.workers[w].stale => ~HasChangeOf(Other(w))

\* Both calls are done and the document holds the change of only one.
C12_Witness ==
    /\ BothDone
    /\ \E w \in Workers : HasChangeOf(w) /\ ~HasChangeOf(Other(w))

(***************************************************************************)
(* Properties of the stored prices and quantities (SpecInv, SpecLegacy).   *)
(***************************************************************************)
\* C13: after any inventory_manager create / update actions,
\* add_item_to_project requests and project_detail quantity edits, every
\* stored master item has price >= 0 and every stored project line has
\* quantity >= 0.
C13_NonNegative ==
    /\ \A t \in ValidItemTypes : \A r \in 1..Len(catalog[t]) :
          Ge0(ParseFloat(catalog[t][r].Price))
    /\ \A line \in ProjectLines : Ge0(line["quantity"])

(***************************************************************************)
(* Properties of the ids of the master inventory (SpecInv).                *)
(***************************************************************************)
DistinctIds(file) ==
    \A i, j \in 1..Len(file) : file[i].SerialNo = file[j].SerialNo => i = j

\* A form of one entry with the given action was served for the labor
\* catalog.
OneEntryServed(action) ==
    /\ req'.handler = "inventory_manager"
    /\ req'.item_type = "labor"
    /\ Len(req'.entries) = 1
    /\ req'.entries[1].action = action

\* The positions of the catalog's rows with the id of the served entry.
Targeted == {i \in 1..Len(catalog.labor) : catalog.labor[i].SerialNo = req'.entries[1].id}

\* C14: from a catalog whose ids are pairwise distinct, after any sequence
\* of add_master_item, update_master_item and delete_master_item the ids
\* are still pairwise distinct, update_master_item changes only the item
\* with the given id, and delete_master_item removes only the item with the
\* given id.
C14_IdsDistinctEditsLocal ==
    [][/\ DistinctIds(catalog.labor) /\ DistinctIds(catalog'.labor)
       /\ OneEntryServed("update") =>
             /\ Len(catalog'.labor) = Len(catalog.labor)
             /\ \A i \in 1..Len(catalog.labor) :
                   /\ catalog'.labor[i].SerialNo = catalog.labor[i].SerialNo
                   /\ i \notin Targeted => catalog'.labor[i] = catalog.labor[i]
       /\ OneEntryServed("delete") =>
             /\ SerialsOf(catalog'.labor) = SerialsOf(catalog.labor) \ {req'.entries[1].id}
             /\ \A i \in 1..Len(catalog.labor) :
                   i \notin Targeted =>
                      \E j \in 1..Len(catalog'.labor) : catalog'.labor[j] = catalog.labor[i]
             /\ Len(catalog'.labor) = Len(catalog.labor) - Cardinality(Targeted)]_vars

\* An item was deleted by its id from a catalog of two, and the other item
\* is still there.
C14_Witness ==
    /\ req.handler = "inventory_manager"
    /\ Len(req.entries) = 1
    /\ req.entries[1].action = "delete"
    /\ req.entries[1].id = "2"
    /\ "2" \in retired.labor
    /\ SerialsOf(catalog.labor) = {"1"}

====
